---- MODULE Spec2Model ----
(***************************************************************************)
(* fdb-viewer: a GTK viewer for memory-mapped FDB databases with a paged   *)
(* table view (1024 rows per page) and an export of all tables to SQLite.  *)
(* The model covers src/main.rs: the application state built in main(),    *)
(* the signal handlers (open, row-selected, next, previous, export),       *)
(* display_table, try_load_file, try_export_db and SqliteVal::to_sql.      *)
(*                                                                         *)
(* Conventions: Option<T> is a sequence, <<>> for None and <<x>> for       *)
(* Some(x).  A panic inside a signal handler terminates the process        *)
(* (alive = FALSE); the memory of a terminated process is not observable,  *)
(* only the files it wrote are.                                            *)
(***************************************************************************)
EXTENDS Integers, Sequences, FiniteSets, TLC

\* ------------------------------------------------------------------------
\* Bounds of the model
\* ------------------------------------------------------------------------

\* rows of the large table (three pages of 1024)
BigRows == 2500

\* rows of the small tables
SmallRows == 3

\* the target store rejects at most one call per export, among the first
\* MaxFailAt calls made on it (0: it rejects none)
MaxFailAt == 10

\* successful exports into one target store
MaxCommits == 1

\* ------------------------------------------------------------------------
\* Program constants
\* ------------------------------------------------------------------------

\* rows per page: the literal 1024 of the handlers
PageSize == 1024

\* ------------------------------------------------------------------------
\* Option
\* ------------------------------------------------------------------------

None == <<>>

Some(x) == <<x>>

unwrap(o) == o[1]

\* ------------------------------------------------------------------------
\* assembly_data::fdb values: Field, ValueType, Column, Table
\* A Field is a tagged value; i carries the number of Integer, BigInt and
\* Float (a float is written in halves, exactly representable as f32 and as
\* f64), s the Latin-1 bytes of Text and VarChar, b the Boolean.
\* ------------------------------------------------------------------------

FieldNothing == [kind |-> "Nothing", i |-> 0, s |-> <<>>, b |-> FALSE]

FieldInteger(v) == [kind |-> "Integer", i |-> v, s |-> <<>>, b |-> FALSE]

FieldFloat(v) == [kind |-> "Float", i |-> v, s |-> <<>>, b |-> FALSE]

FieldText(bytes) == [kind |-> "Text", i |-> 0, s |-> bytes, b |-> FALSE]

FieldBoolean(v) == [kind |-> "Boolean", i |-> 0, s |-> <<>>, b |-> v]

FieldBigInt(v) == [kind |-> "BigInt", i |-> v, s |-> <<>>, b |-> FALSE]

FieldVarChar(bytes) == [kind |-> "VarChar", i |-> 0, s |-> bytes, b |-> FALSE]

Column(n, t) == [name |-> n, value_type |-> t]

Table(n, cols, rs) == [name |-> n, columns |-> cols, rows |-> rs]

\* Latin1Str::decode: every byte b is the code point U+00b; the owned String
\* holds its UTF-8 encoding, one byte below 128 and two bytes from 128 on
Utf8(b) == IF b < 128 THEN <<b>> ELSE <<192 + (b \div 64), 128 + (b % 64)>>

RECURSIVE decode(_)
decode(bytes) ==
    IF bytes = <<>> THEN <<>> ELSE Utf8(Head(bytes)) \o decode(Tail(bytes))

\* ------------------------------------------------------------------------
\* The files the user can choose.  "users.fdb" is the two-table database of
\* the spec's scenario, "big.fdb" has tables of several pages, "empty.fdb"
\* has no table, "weird.fdb" has a column of an unrecognized kind,
\* "bare.fdb" has a table without columns and "missing.fdb" cannot be
\* opened.
\* ------------------------------------------------------------------------

UsersTable ==
    Table("Users",
          <<Column("id", "Integer"), Column("name", "Text")>>,
          [r \in 1..SmallRows |->
              <<FieldInteger(r), IF r = 2 THEN FieldNothing
                                 ELSE FieldText(<<65, 232 + r>>)>>])

ItemsTable == Table("Items", <<Column("id", "Integer")>>, <<>>)

BigTable ==
    Table("Big", <<Column("key", "BigInt")>>,
          [r \in 1..BigRows |-> <<FieldBigInt(r)>>])

ExactTable ==
    Table("Exact", <<Column("flag", "Boolean")>>,
          [r \in 1..PageSize |-> <<FieldBoolean(r % 2 = 0)>>])

MixedTable ==
    Table("Mixed",
          <<Column("n", "Nothing"), Column("i", "Integer"),
            Column("f", "Float"), Column("t", "Text"),
            Column("b", "Boolean"), Column("l", "BigInt"),
            Column("v", "VarChar")>>,
          <<  <<FieldNothing, FieldInteger(-7), FieldFloat(3),
                FieldText(<<104, 105>>), FieldBoolean(TRUE),
                FieldBigInt(2147483647), FieldVarChar(<<233>>)>>,
              <<FieldNothing, FieldNothing, FieldFloat(-1),
                FieldNothing, FieldBoolean(FALSE),
                FieldBigInt(-1), FieldVarChar(<<>>)>>  >>)

GoodTable ==
    Table("Good", <<Column("id", "Integer")>>,
          [r \in 1..SmallRows |-> <<FieldInteger(10 * r)>>])

\* a table without columns
BareTable == Table("Bare", <<>>, <<>>)

WeirdTable ==
    Table("Weird", <<Column("x", "Unknown")>>, <<>>)

Paths == {"users.fdb", "big.fdb", "empty.fdb", "weird.fdb", "bare.fdb",
          "missing.fdb"}

\* File::open and Mmap::map succeed on the files that exist
Readable(path) == path # "missing.fdb"

\* Database::new(mmap).tables(): the ordered table catalog of a mapped file
Database(path) ==
    CASE path = "users.fdb" -> <<UsersTable, ItemsTable>>
      [] path = "big.fdb"   -> <<BigTable, ExactTable, MixedTable>>
      [] path = "weird.fdb" -> <<GoodTable, WeirdTable>>
      [] path = "bare.fdb"  -> <<ItemsTable, BareTable>>
      [] OTHER              -> <<>>

ExportPaths == {"export.sqlite"}

\* ------------------------------------------------------------------------
\* Table catalog lookup and the field materializer
\* ------------------------------------------------------------------------

\* tables.by_name(name): the first table of that name, if any
by_name(tables, name) ==
    LET hits == {k \in 1..Len(tables) : tables[k].name = name}
    IN  IF hits = {} THEN None
        ELSE Some(tables[CHOOSE k \in hits : \A h \in hits : k <= h])

\* table.column_count()
column_count(table) == Len(table.columns)

\* RefField::from: None for an absent field, otherwise the owned value, the
\* text of Text and VarChar decoded
RefField_from(field) ==
    CASE field.kind = "Nothing" -> None
      [] field.kind = "Text"    -> Some([field EXCEPT !.s = decode(field.s)])
      [] field.kind = "VarChar" -> Some([field EXCEPT !.s = decode(field.s)])
      [] OTHER                  -> Some(field)

\* ------------------------------------------------------------------------
\* display_table
\* ------------------------------------------------------------------------

Range(start, end) == [start |-> start, end |-> end]

\* Range::contains with the end of the range included
range_contains_incl(range, count) == range.start <= count /\ count <= range.end

\* Range::contains
range_contains(range, count) == range.start <= count /\ count < range.end

\* insert_with_values(None, None, gtidx, gtval): a new row of the tree store
\* in which the cells of the fields that are present are set; the other
\* cells stay unset
tree_row(col_count, row) ==
    [c \in 1..col_count |->
        IF c <= Len(row) THEN RefField_from(row[c]) ELSE None]

\* display_table leaving the loop once the end of the range is reached
display_table_stops(col_count, table, range) ==
    LET rows    == table.rows
        scanned == IF Len(rows) <= range.end THEN Len(rows) ELSE range.end
        indexed == [k \in 1..scanned |-> [count |-> k - 1, row |-> rows[k]]]
        shown   == SelectSeq(indexed, LAMBDA e : range.start <= e.count)
    IN  [count |-> scanned,
         store |-> [k \in 1..Len(shown) |->
                       [c \in 1..col_count |->
                           IF c <= Len(shown[k].row)
                           THEN RefField_from(shown[k].row[c]) ELSE None]]]

\* display_table counting only the rows it emits
display_table_emitted(col_count, table, range) ==
    LET rows    == table.rows
        indexed == [k \in 1..Len(rows) |-> [count |-> k - 1, row |-> rows[k]]]
        shown   == SelectSeq(indexed, LAMBDA e : range_contains(range, e.count))
    IN  [count |-> Len(shown),
         store |-> [k \in 1..Len(shown) |-> tree_row(col_count, shown[k].row)]]

\* display_table: the loop visits every row of table.row_iter() with its
\* index count, which it increments once per row on both branches; the rows
\* whose index is in the range are appended to the cleared store.  The
\* result is the returned count and the content of the store.
display_table(col_count, table, range) ==
    LET rows    == table.rows
        indexed == [k \in 1..Len(rows) |-> [count |-> k - 1, row |-> rows[k]]]
        shown   == SelectSeq(indexed, LAMBDA e : range_contains(range, e.count))
    IN  [count |-> Len(indexed),
         store |-> [k \in 1..Len(shown) |-> tree_row(col_count, shown[k].row)]]

\* the match on tcol.value_type() of the row-selected handler: every kind
\* has a display type but ValueType::Unknown, which panics
static_type(value_type) ==
    CASE value_type = "Nothing" -> "String"
      [] value_type = "Integer" -> "i32"
      [] value_type = "Float"   -> "f32"
      [] value_type = "Text"    -> "String"
      [] value_type = "Boolean" -> "bool"
      [] value_type = "BigInt"  -> "i64"
      [] value_type = "VarChar" -> "String"
      [] OTHER                  -> "panic"

\* ------------------------------------------------------------------------
\* The export: SQL values, the derived statements, the target store
\* ------------------------------------------------------------------------

\* rusqlite::types::Value
SqlNull == [cls |-> "NULL", i |-> 0, s |-> <<>>]

SqlInteger(v) == [cls |-> "INTEGER", i |-> v, s |-> <<>>]

SqlReal(v) == [cls |-> "REAL", i |-> v, s |-> <<>>]

SqlText(str) == [cls |-> "TEXT", i |-> 0, s |-> str]

\* to_sql binding the stored bytes of a text without decoding them
to_sql_raw(field) ==
    CASE field.kind = "Nothing" -> SqlNull
      [] field.kind = "Integer" -> SqlInteger(field.i)
      [] field.kind = "Float"   -> SqlReal(field.i)
      [] field.kind = "Text"    -> SqlText(field.s)
      [] field.kind = "Boolean" -> SqlInteger(IF field.b THEN 1 ELSE 0)
      [] field.kind = "BigInt"  -> SqlInteger(field.i)
      [] field.kind = "VarChar" -> SqlText(field.s)

\* SqliteVal::to_sql
to_sql(field) ==
    CASE field.kind = "Nothing" -> SqlNull
      [] field.kind = "Integer" -> SqlInteger(field.i)
      [] field.kind = "Float"   -> SqlReal(field.i)
      [] field.kind = "Text"    -> SqlText(decode(field.s))
      [] field.kind = "Boolean" -> SqlInteger(IF field.b THEN 1 ELSE 0)
      [] field.kind = "BigInt"  -> SqlInteger(field.i)
      [] field.kind = "VarChar" -> SqlText(decode(field.s))

\* SqliteRow::into_iter: the parameters bound by stmt.execute, one per field
\* of the row, in field order
SqliteRow(row) == [c \in 1..Len(row) |-> to_sql(row[c])]

\* the match of try_export_db with a default type for an unrecognized kind
sql_type_default(value_type) ==
    CASE value_type = "Nothing" -> "NULL"
      [] value_type = "Integer" -> "INTEGER"
      [] value_type = "Float"   -> "REAL"
      [] value_type = "Text"    -> "TEXT"
      [] value_type = "Boolean" -> "INTEGER"
      [] value_type = "BigInt"  -> "INTEGER"
      [] value_type = "VarChar" -> "BLOB"
      [] OTHER                  -> "BLOB"

\* the match on col.value_type() of try_export_db: the declared type of a
\* column; ValueType::Unknown panics
sql_type(value_type) ==
    CASE value_type = "Nothing" -> "NULL"
      [] value_type = "Integer" -> "INTEGER"
      [] value_type = "Float"   -> "REAL"
      [] value_type = "Text"    -> "TEXT"
      [] value_type = "Boolean" -> "INTEGER"
      [] value_type = "BigInt"  -> "INTEGER"
      [] value_type = "VarChar" -> "BLOB"
      [] OTHER                  -> "panic"

\* A statement sent to the store: its operation, the table it names, the
\* columns it lists (with their declared type in a CREATE) and its
\* positional placeholders.
Statement(op, table, cols, placeholders) ==
    [op |-> op, table |-> table, cols |-> cols, placeholders |-> placeholders]

\* a first statement that opens no transaction
begin_stmt_none == Statement("PRAGMA", "", <<>>, <<>>)

\* conn.execute("BEGIN", ...)
begin_stmt == Statement("BEGIN", "", <<>>, <<>>)

\* conn.execute("COMMIT", ...)
commit_stmt == Statement("COMMIT", "", <<>>, <<>>)

\* CREATE TABLE IF NOT EXISTS "name" ( [col] typ, ... );
create_query(table) ==
    Statement("CREATE", table.name,
              [c \in 1..Len(table.columns) |->
                  [name |-> table.columns[c].name,
                   typ  |-> sql_type(table.columns[c].value_type)]],
              <<>>)

\* INSERT INTO "name" ([col], ...) VALUES (?1, ?2, ...);  "?1" is always
\* written, then "?i" for i in 2..=column_count
insert_query(table) ==
    Statement("INSERT", table.name,
              [c \in 1..Len(table.columns) |->
                  [name |-> table.columns[c].name, typ |-> ""]],
              <<1>> \o [k \in 1..(IF column_count(table) >= 2
                                   THEN column_count(table) - 1 ELSE 0)
                           |-> k + 1])

\* The content of a target store file: its tables, in creation order, each
\* with its declared columns and its rows, and the number of transactions
\* committed to it.
EmptyStore == [tables |-> <<>>, commits |-> 0]

\* rusqlite::Connection::open(path) on a store file
Connection(target) == [committed |-> target, working |-> target.tables,
                       in_txn |-> FALSE]

has_table(tables, name) == \E k \in 1..Len(tables) : tables[k].name = name

\* the end of a write: in autocommit mode the statement is its own
\* transaction, inside BEGIN .. COMMIT it stays pending
conn_written(conn, tables, writes) ==
    IF conn.in_txn
    THEN [conn EXCEPT !.working = tables]
    ELSE [conn EXCEPT !.working = tables,
                      !.committed = [tables  |-> tables,
                                     commits |-> conn.committed.commits + writes]]

\* conn.execute(stmt) of a statement without parameters
conn_execute(conn, stmt) ==
    CASE stmt.op = "BEGIN"  -> [conn EXCEPT !.in_txn = TRUE]
      [] stmt.op = "COMMIT" ->
            [conn EXCEPT !.in_txn = FALSE,
                         !.committed = [tables  |-> conn.working,
                                        commits |-> conn.committed.commits + 1]]
      [] stmt.op = "CREATE" ->
            IF has_table(conn.working, stmt.table) THEN conn
            ELSE conn_written(conn,
                              Append(conn.working,
                                     [name |-> stmt.table, cols |-> stmt.cols,
                                      rows |-> <<>>]),
                              1)
      [] OTHER -> conn

\* stmt.execute(SqliteRow(row)) for each row of bound, in order: every
\* execution appends one row to the table the statement names
conn_insert(conn, stmt, bound) ==
    conn_written(conn,
                 [k \in 1..Len(conn.working) |->
                     IF conn.working[k].name = stmt.table
                     THEN [conn.working[k] EXCEPT !.rows = @ \o bound]
                     ELSE conn.working[k]],
                 Len(bound))

\* dropping the connection: what was not committed is rolled back
conn_drop(conn) == conn.committed

\* one entry of the log of the calls made on the store
Call(stmt, ok) ==
    [op |-> stmt.op, table |-> stmt.table, cols |-> stmt.cols,
     placeholders |-> stmt.placeholders, ok |-> ok]

\* ------------------------------------------------------------------------
\* try_export_db
\* The state of a running export: the connection, the log of the calls made
\* on the store, their number, and "Run" until a call is rejected ("Err",
\* the `?` returns) or the function panics ("Panic").  fail is the index of
\* the call the store rejects in this export, 0 when it rejects none.
\* ------------------------------------------------------------------------

\* SQLite rejects a statement on a table that lists no column: the column
\* list of CREATE TABLE and of INSERT is not empty in its grammar
malformed(stmt) == stmt.op \in {"CREATE", "PREPARE", "INSERT"} /\ stmt.cols = <<>>

\* one call on the store, followed by `?`
export_call(e, stmt, fail) ==
    IF e.calls + 1 = fail \/ malformed(stmt)
    THEN [e EXCEPT !.calls = @ + 1, !.log = Append(@, Call(stmt, FALSE)),
                   !.result = "Err"]
    ELSE [e EXCEPT !.calls = @ + 1, !.log = Append(@, Call(stmt, TRUE)),
                   !.conn = conn_execute(@, stmt)]

\* for row in table.row_iter() { stmt.execute(SqliteRow(row))?; }
\* the rows before the first rejected execution are inserted, in order
export_rows(e, stmt, rows, fail) ==
    LET failing == {k \in 1..Len(rows) : e.calls + k = fail}
        done    == IF failing = {} THEN Len(rows)
                   ELSE (CHOOSE k \in failing : \A h \in failing : k <= h) - 1
        bound   == [k \in 1..done |-> SqliteRow(rows[k])]
    IN  [conn   |-> conn_insert(e.conn, stmt, bound),
         log    |-> e.log \o [k \in 1..done |-> Call(stmt, TRUE)]
                          \o (IF failing = {} THEN <<>>
                              ELSE <<Call(stmt, FALSE)>>),
         calls  |-> e.calls + done + (IF failing = {} THEN 0 ELSE 1),
         result |-> IF failing = {} THEN "Run" ELSE "Err"]

\* the body of `for table in tables.iter()`
export_table(e, table, fail) ==
    IF \E c \in 1..Len(table.columns) :
          sql_type(table.columns[c].value_type) = "panic"
    THEN [e EXCEPT !.result = "Panic"]
    ELSE LET created  == export_call(e, create_query(table), fail)
             prepared == export_call(created,
                                     [insert_query(table) EXCEPT !.op = "PREPARE"],
                                     fail)
         IN  IF created.result # "Run" THEN created
             ELSE IF prepared.result # "Run" THEN prepared
             ELSE export_rows(prepared, insert_query(table), table.rows, fail)

RECURSIVE export_tables(_, _, _, _)
export_tables(e, tables, k, fail) ==
    IF k > Len(tables) \/ e.result # "Run" THEN e
    ELSE export_tables(export_table(e, tables[k], fail), tables, k + 1, fail)

\* try_export_db(path, db) on the store file content target: the result
\* ("Ok", "Err" or "Panic"), the log of the calls, and the content of the
\* store file once the connection is dropped
try_export_db(target, tables, fail) ==
    LET e0 == [conn |-> Connection(target), log |-> <<>>, calls |-> 0,
               result |-> "Run"]
        opened == export_call(e0, Statement("OPEN", "", <<>>, <<>>), fail)
        begun  == IF opened.result # "Run" THEN opened
                  ELSE export_call(opened, begin_stmt, fail)
        filled == export_tables(begun, tables, 1, fail)
        ended  == IF filled.result # "Run" THEN filled
                  ELSE export_call(filled, commit_stmt, fail)
    IN  [result |-> IF ended.result = "Run" THEN "Ok" ELSE ended.result,
         log    |-> ended.log,
         store  |-> conn_drop(ended.conn)]

\* ------------------------------------------------------------------------
\* The state of the application
\* ------------------------------------------------------------------------

VARIABLES
    database_memmap,            \* Option<DB>: the mapping of the open file
    pending,                    \* Option<DB>: the mapping try_load_file has
                                \* returned to the open handler
    pc,                         \* position of the open handler
    header_subtitle,            \* subtitle of the header bar
    listbox,                    \* labels of the rows of the table list
    selected,                   \* index of the selected row, 0 for none
    paging,                     \* Option<Paging>
    page,                       \* Option<TablePage>: name and store content
    button_next_sensitive,
    button_previous_sensitive,
    button_box_paging_visible,
    label_page,                 \* Option of the pair shown as "a/b"
    button_export_visible,
    store,                      \* content of the target store files
    sql_log,                    \* calls made on the store by the last export
    alive,                      \* the process is running
    last                        \* the last event of the interactive surface

memory == <<database_memmap, pending, pc, header_subtitle, listbox, selected,
            paging, page, button_next_sensitive, button_previous_sensitive,
            button_box_paging_visible, label_page, button_export_visible>>

vars == <<database_memmap, pending, pc, header_subtitle, listbox, selected,
          paging, page, button_next_sensitive, button_previous_sensitive,
          button_box_paging_visible, label_page, button_export_visible,
          store, sql_log, alive, last>>

Event(op, arg, result) == [op |-> op, arg |-> arg, result |-> result]

\* window.show_all(): every widget below the window becomes visible, but a
\* widget whose no-show-all property is set keeps its visibility
show_all(visible, no_show_all) == IF no_show_all THEN visible ELSE TRUE

\* the state main() builds before gtk::main().  The widgets come from the
\* glade description, which decides their visible and no-show-all
\* properties: the paging box is hidden by set_visible(false) and then
\* goes through window.show_all(), the export button goes through
\* window.show_all() with the visibility of the description.  The buttons
\* are sensitive.
Init ==
    /\ database_memmap = None
    /\ pending = None
    /\ pc = "idle"
    /\ header_subtitle = None
    /\ listbox = <<>>
    /\ selected = 0
    /\ paging = None
    /\ page = None
    /\ button_next_sensitive = TRUE
    /\ button_previous_sensitive = TRUE
    /\ button_box_paging_visible \in {show_all(FALSE, n) : n \in BOOLEAN}
    /\ label_page = None
    /\ button_export_visible \in {show_all(v, n) : v \in BOOLEAN, n \in BOOLEAN}
    /\ store = [p \in ExportPaths |-> EmptyStore]
    /\ sql_log = <<>>
    /\ alive = TRUE
    /\ last = Event("start", "", "Ok")

\* a panic in a handler: the process terminates and its memory is gone
Crash(event) ==
    /\ alive' = FALSE
    /\ last' = event
    /\ database_memmap' = None
    /\ pending' = None
    /\ pc' = "idle"
    /\ header_subtitle' = None
    /\ listbox' = <<>>
    /\ selected' = 0
    /\ paging' = None
    /\ page' = None
    /\ button_next_sensitive' = TRUE
    /\ button_previous_sensitive' = TRUE
    /\ button_box_paging_visible' = FALSE
    /\ label_page' = None
    /\ button_export_visible' = FALSE

\* ------------------------------------------------------------------------
\* set_paging
\* ------------------------------------------------------------------------

Paging(num_pages, current) == [num_pages |-> num_pages, current |-> current]

\* set_paging leaving "next" sensitive on the last page
set_paging_off(new) ==
    /\ paging' = new
    /\ IF new # None
       THEN /\ button_box_paging_visible' = TRUE
            /\ label_page' = Some(<<unwrap(new).current + 1, unwrap(new).num_pages>>)
            /\ button_next_sensitive' =
                   (unwrap(new).current < unwrap(new).num_pages)
            /\ button_previous_sensitive' = (unwrap(new).current > 0)
       ELSE /\ button_box_paging_visible' = FALSE
            /\ UNCHANGED <<label_page, button_next_sensitive,
                           button_previous_sensitive>>

\* set_paging leaving "previous" sensitive on the first page
set_paging_prev(new) ==
    /\ paging' = new
    /\ IF new # None
       THEN /\ button_box_paging_visible' = TRUE
            /\ label_page' = Some(<<unwrap(new).current + 1, unwrap(new).num_pages>>)
            /\ button_next_sensitive' =
                   (unwrap(new).current + 1 < unwrap(new).num_pages)
            /\ button_previous_sensitive' = (unwrap(new).current >= 0)
       ELSE /\ button_box_paging_visible' = FALSE
            /\ UNCHANGED <<label_page, button_next_sensitive,
                           button_previous_sensitive>>

set_paging(new) ==
    /\ paging' = new
    /\ IF new # None
       THEN /\ button_box_paging_visible' = TRUE
            /\ label_page' = Some(<<unwrap(new).current + 1, unwrap(new).num_pages>>)
            /\ button_next_sensitive' =
                   (unwrap(new).current + 1 < unwrap(new).num_pages)
            /\ button_previous_sensitive' = (unwrap(new).current > 0)
       ELSE /\ button_box_paging_visible' = FALSE
            /\ UNCHANGED <<label_page, button_next_sensitive,
                           button_previous_sensitive>>

\* ------------------------------------------------------------------------
\* The bodies of the handlers, as outcomes: panic, or the new paging state
\* and table page
\* ------------------------------------------------------------------------

Outcome(panic, newpaging, newpage) ==
    [panic |-> panic, paging |-> newpaging, page |-> newpage]

TablePage(name, content) == [name |-> name, store |-> content]

\* listbox.connect_row_selected, a row being selected: resolve the table,
\* build the columns, display rows 0..1024 and derive the number of pages
\* from the returned count.  gtk::TreeStore::new(&[]) gets no store from
\* GTK for a table without columns, and the handler panics on it.
row_selected(db, name) ==
    LET found == IF db = None THEN None
                 ELSE by_name(Database(unwrap(db)), name)
    IN  IF found = None THEN Outcome(TRUE, None, None)
        ELSE LET table == unwrap(found)
                 shown == display_table(column_count(table), table,
                                        Range(0, PageSize))
                 max   == shown.count
                 num_pages == (max \div PageSize) + 1
             IN  IF \E c \in 1..Len(table.columns) :
                        static_type(table.columns[c].value_type) = "panic"
                 THEN Outcome(TRUE, None, None)
                 ELSE IF column_count(table) = 0
                 THEN Outcome(TRUE, None, None)
                 ELSE Outcome(FALSE, Some(Paging(num_pages, 0)),
                              Some(TablePage(name, shown.store)))

\* the body shared by button_previous.connect_clicked and
\* button_next.connect_clicked once current is computed: resolve the table
\* of the page by name, display rows current*1024 .. current*1024+1024
change_page(db, oldpage, oldpaging, current) ==
    LET found == IF db = None THEN None
                 ELSE by_name(Database(unwrap(db)), oldpage.name)
    IN  IF found = None THEN Outcome(TRUE, None, None)
        ELSE LET table   == unwrap(found)
                 new_min == current * PageSize
                 new_max == new_min + PageSize
                 shown   == display_table(column_count(table), table,
                                          Range(new_min, new_max))
             IN  Outcome(FALSE, Some(Paging(oldpaging.num_pages, current)),
                         Some(TablePage(oldpage.name, shown.store)))

\* ------------------------------------------------------------------------
\* Opening a file
\* ------------------------------------------------------------------------

\* try_load_file creating the file that is missing
try_load_file_create(path) == Some(path)

\* try_load_file: Ok(DB { mmap }) or the io::Error of File::open / Mmap::map
try_load_file(path) == IF Readable(path) THEN Some(path) ELSE None

\* the mappings alive in the process: the one of the database slot and the
\* one the open handler holds between try_load_file and load
MappingsHeld ==
    (IF database_memmap = None THEN 0 ELSE 1) + (IF pending = None THEN 0 ELSE 1)

\* button_open.connect_clicked, the dialog accepted with a file: on Err a
\* message dialog is shown and nothing else happens; on Ok the handler holds
\* the new DB, sets the subtitle and goes on to load(db)
OpenFile(path) ==
    /\ alive /\ pc = "idle"
    /\ IF try_load_file(path) = None
       THEN /\ last' = Event("open", path, "IoError")
            /\ UNCHANGED <<memory, store, sql_log, alive>>
       ELSE /\ pending' = try_load_file(path)
            /\ header_subtitle' = Some(path)
            /\ pc' = "load"
            /\ last' = Event("open", path, "Mapped")
            /\ UNCHANGED <<database_memmap, listbox, selected, paging, page,
                           button_next_sensitive, button_previous_sensitive,
                           button_box_paging_visible, label_page,
                           button_export_visible, store, sql_log, alive>>

\* load(db): empty the list, store the DB in the slot (dropping the previous
\* one), show the export button, add one row per table, select row 0.
\* Selecting a row runs the row-selected handler; with no row, the handler
\* is at most called with None and changes nothing.
Load ==
    /\ alive /\ pc = "load"
    /\ LET tables == Database(unwrap(pending))
           names  == [k \in 1..Len(tables) |-> tables[k].name]
           path   == unwrap(pending)
           o      == row_selected(pending, names[1])
       IN  IF names = <<>>
           THEN /\ database_memmap' = pending
                /\ pending' = None
                /\ pc' = "idle"
                /\ listbox' = names
                /\ selected' = 0
                /\ button_export_visible' = TRUE
                /\ last' = Event("open", path, "Ok")
                /\ UNCHANGED <<header_subtitle, paging, page,
                               button_next_sensitive, button_previous_sensitive,
                               button_box_paging_visible, label_page,
                               store, sql_log, alive>>
           ELSE IF o.panic
           THEN /\ Crash(Event("open", path, "Panic"))
                /\ UNCHANGED <<store, sql_log>>
           ELSE /\ database_memmap' = pending
                /\ pending' = None
                /\ pc' = "idle"
                /\ listbox' = names
                /\ selected' = 1
                /\ button_export_visible' = TRUE
                /\ set_paging(o.paging)
                /\ page' = o.page
                /\ last' = Event("open", path, "Ok")
                /\ UNCHANGED <<header_subtitle, store, sql_log, alive>>

\* ------------------------------------------------------------------------
\* Selecting a table
\* ------------------------------------------------------------------------

\* the user selects row k of the list: listbox.connect_row_selected with
\* Some(row)
SelectTable(k) ==
    /\ alive /\ pc = "idle"
    /\ k \in 1..Len(listbox)
    /\ LET o == row_selected(database_memmap, listbox[k])
       IN  IF o.panic
           THEN /\ Crash(Event("select_table", listbox[k], "Panic"))
                /\ UNCHANGED <<store, sql_log>>
           ELSE /\ selected' = k
                /\ set_paging(o.paging)
                /\ page' = o.page
                /\ last' = Event("select_table", listbox[k], "Ok")
                /\ UNCHANGED <<database_memmap, pending, pc, header_subtitle,
                               listbox, button_export_visible, store, sql_log,
                               alive>>

\* the user unselects the selected row: the handler is called with None and
\* prints a line
UnselectTable ==
    /\ alive /\ pc = "idle"
    /\ selected # 0
    /\ selected' = 0
    /\ last' = Event("unselect", listbox[selected], "Ok")
    /\ UNCHANGED <<database_memmap, pending, pc, header_subtitle, listbox,
                   paging, page, button_next_sensitive,
                   button_previous_sensitive, button_box_paging_visible,
                   label_page, button_export_visible, store, sql_log, alive>>

\* ------------------------------------------------------------------------
\* Changing the page
\* ------------------------------------------------------------------------

\* what a page change leaves alone
PageFrame ==
    UNCHANGED <<database_memmap, pending, pc, header_subtitle, listbox,
                selected, button_export_visible, store, sql_log, alive>>

\* a click that has no effect
NoEffect(event) ==
    /\ last' = event
    /\ UNCHANGED <<memory, store, sql_log, alive>>

\* the user clicks "next": an insensitive button emits no signal; otherwise
\* button_next.connect_clicked runs
NextPage ==
    /\ alive /\ pc = "idle"
    /\ IF ~button_next_sensitive
       THEN NoEffect(Event("next_page", "", "Ignored"))
       ELSE IF page = None \/ paging = None
       THEN NoEffect(Event("next_page", "", "NoPage"))
       ELSE LET o == change_page(database_memmap, unwrap(page), unwrap(paging),
                                 unwrap(paging).current + 1)
            IN  IF o.panic
                THEN /\ Crash(Event("next_page", unwrap(page).name, "Panic"))
                     /\ UNCHANGED <<store, sql_log>>
                ELSE /\ page' = o.page
                     /\ set_paging(o.paging)
                     /\ last' = Event("next_page", unwrap(page).name, "Ok")
                     /\ PageFrame

\* the user clicks "previous": an insensitive button emits no signal;
\* otherwise button_previous.connect_clicked runs.  paging.current - 1 on a
\* usize of 0 panics (overflow checks).
PrevPage ==
    /\ alive /\ pc = "idle"
    /\ IF ~button_previous_sensitive
       THEN NoEffect(Event("prev_page", "", "Ignored"))
       ELSE IF page = None \/ paging = None
       THEN NoEffect(Event("prev_page", "", "NoPage"))
       ELSE IF unwrap(paging).current = 0
       THEN /\ Crash(Event("prev_page", unwrap(page).name, "Panic"))
            /\ UNCHANGED <<store, sql_log>>
       ELSE LET o == change_page(database_memmap, unwrap(page), unwrap(paging),
                                 unwrap(paging).current - 1)
            IN  IF o.panic
                THEN /\ Crash(Event("prev_page", unwrap(page).name, "Panic"))
                     /\ UNCHANGED <<store, sql_log>>
                ELSE /\ page' = o.page
                     /\ set_paging(o.paging)
                     /\ last' = Event("prev_page", unwrap(page).name, "Ok")
                     /\ PageFrame

\* ------------------------------------------------------------------------
\* Exporting
\* ------------------------------------------------------------------------

\* button_export.connect_clicked, the dialog accepted with a file:
\* try_export_db(&file, db).unwrap().  The store file keeps what the export
\* committed; an Err panics in unwrap, and so does the unwrap of the
\* database slot when the button is clicked before a file is open.
Export(path, fail) ==
    /\ alive /\ pc = "idle"
    /\ button_export_visible
    /\ store[path].commits < MaxCommits
    /\ IF database_memmap = None
       THEN /\ Crash(Event("export", path, "Panic"))
            /\ UNCHANGED <<store, sql_log>>
       ELSE LET r == try_export_db(store[path],
                                   Database(unwrap(database_memmap)), fail)
            IN  /\ store' = [store EXCEPT ![path] = r.store]
                /\ sql_log' = r.log
                /\ IF r.result = "Ok"
                   THEN /\ last' = Event("export", path, "Ok")
                        /\ UNCHANGED <<memory, alive>>
                   ELSE Crash(Event("export", path, r.result))

Next ==
    \/ \E path \in Paths : OpenFile(path)
    \/ Load
    \/ \E k \in 1..3 : SelectTable(k)
    \/ UnselectTable
    \/ NextPage
    \/ PrevPage
    \/ \E path \in ExportPaths : \E fail \in 0..MaxFailAt : Export(path, fail)

Spec == Init /\ [][Next]_vars

\* ------------------------------------------------------------------------
\* Properties
\* ------------------------------------------------------------------------

Min(a, b) == IF a <= b THEN a ELSE b

\* the tables of the open database
OpenTables == IF database_memmap = None THEN <<>>
              ELSE Database(unwrap(database_memmap))

\* the page on display belongs to a table of the open database
PageResolves ==
    /\ page # None
    /\ by_name(OpenTables, unwrap(page).name) # None

\* one full scan of a table: every row, in iteration order, as displayed
FullScan(table) ==
    [k \in 1..Len(table.rows) |-> tree_row(column_count(table), table.rows[k])]

\* the rows of a scan with index in [k*1024, k*1024 + 1024)
Window(scan, k) ==
    SubSeq(scan, k * PageSize + 1, Min((k + 1) * PageSize, Len(scan)))

RECURSIVE ConcatPages(_, _, _)
ConcatPages(scan, k, n) ==
    IF k >= n THEN <<>> ELSE Window(scan, k) \o ConcatPages(scan, k + 1, n)

\* C1. Paging completeness: whenever a page of a table of the open database
\* is on display, its rows are the window [current*1024, current*1024+1024)
\* of one full scan of the table, and the windows of pages 0 .. num_pages-1,
\* concatenated in page order, are exactly that full scan.
C1_PagingComplete ==
    (alive /\ paging # None /\ PageResolves) =>
        LET scan == FullScan(unwrap(by_name(OpenTables, unwrap(page).name)))
        IN  /\ unwrap(page).store = Window(scan, unwrap(paging).current)
            /\ ConcatPages(scan, 0, unwrap(paging).num_pages) = scan

\* C1 witness: the last page of a table of three pages, reached by next_page
C1_Witness ==
    /\ alive /\ paging # None /\ PageResolves
    /\ last.op = "next_page" /\ last.result = "Ok"
    /\ unwrap(paging).num_pages = 3
    /\ unwrap(paging).current = 2
    /\ Len(unwrap(page).store) > 0

\* the calls of an export that concern a table
TableOps == {"CREATE", "PREPARE", "INSERT"}

\* C2. Export is all-or-nothing: in every export, BEGIN is accepted before
\* the first call that concerns a table; COMMIT is only ever the last call,
\* made after every earlier call was accepted and every row of every table
\* was inserted; when an earlier call is rejected there is no COMMIT; and
\* when any call is rejected or the export panics, the target store is
\* exactly as it was before the export.
C2_AllOrNothing ==
    [][ (last'.op = "export" /\ database_memmap # None) =>
          LET log    == sql_log'
              tables == Database(unwrap(database_memmap))
              ops    == {k \in 1..Len(log) : log[k].op \in TableOps}
              failed == {k \in 1..Len(log) : ~log[k].ok}
              commit == {k \in 1..Len(log) : log[k].op = "COMMIT"}
          IN  /\ ops # {} =>
                    /\ log[2].op = "BEGIN" /\ log[2].ok
                    /\ \A k \in ops : k > 2
              /\ \A k \in commit :
                    /\ k = Len(log)
                    /\ \A j \in 1..(k - 1) : log[j].ok
                    /\ \A t \in 1..Len(tables) :
                          Cardinality({j \in 1..(k - 1) :
                                          /\ log[j].op = "INSERT"
                                          /\ log[j].table = tables[t].name})
                              = Len(tables[t].rows)
              /\ (\E k \in failed : log[k].op # "COMMIT") => commit = {}
              /\ (failed # {} \/ last'.result # "Ok") => store' = store
      ]_vars

\* C2 witness: an export rejected at an INSERT after earlier rows of the
\* same export were inserted
C2_Witness ==
    /\ last.op = "export" /\ last.result = "Err"
    /\ Len(sql_log) > 1
    /\ sql_log[Len(sql_log)].op = "INSERT"
    /\ ~sql_log[Len(sql_log)].ok
    /\ sql_log[Len(sql_log) - 1].op = "INSERT"
    /\ sql_log[Len(sql_log) - 1].ok

\* the value the export is to bind for a field: NULL for an absent field,
\* 0 or 1 for a boolean, the number or the decoded string otherwise
ExpectedBound(field) ==
    IF field.kind = "Nothing" THEN SqlNull
    ELSE IF field.kind = "Boolean" THEN SqlInteger(IF field.b THEN 1 ELSE 0)
    ELSE IF field.kind \in {"Integer", "BigInt"} THEN SqlInteger(field.i)
    ELSE IF field.kind = "Float" THEN SqlReal(field.i)
    ELSE SqlText(decode(field.s))

\* C3. Export completeness: after an export that succeeds on an empty target
\* store, the store has one table per table of the database, in the table
\* order, with the same name, and its rows are the rows of the source table:
\* one per source row, in iteration order, the fields bound in column order
\* under the type mapping.
C3_ExportComplete ==
    [][ \A p \in ExportPaths :
          (/\ last'.op = "export" /\ last'.arg = p /\ last'.result = "Ok"
           /\ store[p] = EmptyStore
           /\ database_memmap # None) =>
             LET tables == Database(unwrap(database_memmap))
                 target == store'[p].tables
             IN  /\ Len(target) = Len(tables)
                 /\ \A t \in 1..Len(tables) :
                       /\ target[t].name = tables[t].name
                       /\ Len(target[t].rows) = Len(tables[t].rows)
                       /\ target[t].rows =
                             [r \in 1..Len(tables[t].rows) |->
                                 [c \in 1..Len(tables[t].rows[r]) |->
                                     ExpectedBound(tables[t].rows[r][c])]]
      ]_vars

\* C3 witness: a first, successful export of the database of three tables
C3_Witness ==
    /\ last.op = "export" /\ last.result = "Ok"
    /\ database_memmap = Some("big.fdb")
    /\ \E p \in ExportPaths :
          /\ last.arg = p
          /\ store[p].commits = 1
          /\ Len(store[p].tables) = 3
          /\ Len(store[p].tables[1].rows) = BigRows

\* C4. Page count: after select_table on a table whose row iterator yields N
\* rows, the paging state is current = 0 and num_pages = N \div 1024 + 1.
C4_PageCount ==
    (alive /\ last.op = "select_table" /\ last.result = "Ok") =>
        LET table == unwrap(by_name(OpenTables, last.arg))
            N     == Len(table.rows)
        IN  /\ paging = Some(Paging((N \div PageSize) + 1, 0))
            /\ N = 0 => unwrap(paging).num_pages = 1
            /\ N = 3 => unwrap(paging).num_pages = 1
            /\ N = 2500 => unwrap(paging).num_pages = 3

\* C4 witness: select_table on the table of more than two pages of rows
C4_Witness ==
    /\ alive /\ last = Event("select_table", "Big", "Ok")
    /\ paging = Some(Paging(3, 0))
    /\ Len(unwrap(page).store) = PageSize

\* C5. Next/Previous boundary: a prev_page while the current page is 0, and
\* a next_page while the current page is the last one, change nothing and
\* are no error.
C5_Boundary ==
    [][ (alive /\ paging # None /\ page # None) =>
          /\ (last'.op = "prev_page" /\ unwrap(paging).current = 0) =>
                UNCHANGED <<memory, store, sql_log, alive>>
          /\ (/\ last'.op = "next_page"
              /\ unwrap(paging).current = unwrap(paging).num_pages - 1) =>
                UNCHANGED <<memory, store, sql_log, alive>>
      ]_vars

\* C5 witness: next_page is clicked on the last page of a table of several
\* pages
C5_Witness ==
    /\ alive /\ paging # None /\ page # None
    /\ last.op = "next_page" /\ last.result = "Ignored"
    /\ unwrap(paging).num_pages > 1
    /\ unwrap(paging).current = unwrap(paging).num_pages - 1

\* C6. Derived state is invalidated with its Database: a paging state or a
\* displayed page exists only if its table resolves in the catalog of the
\* open database.
C6_DerivedFromOpen ==
    (alive /\ (paging # None \/ page # None)) => PageResolves

\* C7. A failed open changes nothing: the database slot, the table list, the
\* paging state, the displayed page and the rest of the application state
\* are as before.
C7_FailedOpen ==
    [][ (last'.op = "open" /\ ~Readable(last'.arg)) =>
          UNCHANGED <<memory, store, sql_log, alive>> ]_vars

\* C7 witness: a failed open while a database is open and a page displayed
C7_Witness ==
    /\ alive /\ last = Event("open", "missing.fdb", "IoError")
    /\ database_memmap # None
    /\ PageResolves

\* C8. Export store errors are recovered at the boundary: when the store
\* rejects a call of an export, the application keeps running with the same
\* open database and paging state.
C8_ExportRecovered ==
    [][ (last'.op = "export" /\ last'.result = "Err" /\ alive) =>
          /\ alive'
          /\ database_memmap' = database_memmap
          /\ paging' = paging
      ]_vars

\* the declared type the mapping table gives a source kind
MappedType(value_type) ==
    CASE value_type = "Integer" -> "INTEGER"
      [] value_type = "Float"   -> "REAL"
      [] value_type = "Text"    -> "TEXT"
      [] value_type = "Boolean" -> "INTEGER"
      [] value_type = "BigInt"  -> "INTEGER"
      [] value_type = "VarChar" -> "TEXT"

MappedKinds == {"Integer", "Float", "Text", "Boolean", "BigInt", "VarChar"}

\* C9. Type mapping of the derived schema: every CREATE of an export has one
\* column per source column, in source order, named after it, with the
\* declared type of the mapping table.
C9_TypeMapping ==
    [][ (last'.op = "export" /\ alive /\ database_memmap # None) =>
          \A k \in 1..Len(sql_log') :
             sql_log'[k].op = "CREATE" =>
                LET table == unwrap(by_name(Database(unwrap(database_memmap)),
                                            sql_log'[k].table))
                    cols  == sql_log'[k].cols
                IN  /\ Len(cols) = Len(table.columns)
                    /\ \A c \in 1..Len(cols) :
                          /\ cols[c].name = table.columns[c].name
                          /\ table.columns[c].value_type \in MappedKinds =>
                                cols[c].typ =
                                    MappedType(table.columns[c].value_type)
      ]_vars

\* C10. Single open mapping: at most one mapping is held in every state,
\* the steps of open included.
C10_SingleMapping == MappingsHeld <= 1

\* the table of the page on display, and the range of its current page
ShownTable == unwrap(by_name(OpenTables, unwrap(page).name))

ShownRange ==
    Range(unwrap(paging).current * PageSize,
          unwrap(paging).current * PageSize + PageSize)

\* the rows of a table with index in a range, in order, as displayed
RowsIn(table, range) ==
    LET first == Min(range.start, Len(table.rows))
        stop  == Min(range.end, Len(table.rows))
    IN  [k \in 1..(stop - first) |->
            tree_row(column_count(table), table.rows[first + k])]

\* C11, as claimed. display_table on the range of the page on display emits
\* exactly the rows with index in the range into the cleared grid, and
\* returns min(N, end): it stops scanning at the end of the range.
C11_StopsAtEnd ==
    (alive /\ paging # None /\ PageResolves) =>
        LET shown == display_table(column_count(ShownTable), ShownTable,
                                   ShownRange)
        IN  /\ unwrap(page).store = RowsIn(ShownTable, ShownRange)
            /\ shown.store = unwrap(page).store
            /\ shown.count = Min(Len(ShownTable.rows), ShownRange.end)

\* C11, amended. display_table on the range of the page on display emits
\* exactly the rows with index in the range into the cleared grid, and
\* returns N: it scans the row iterator until it is exhausted, also past
\* the end of the range.
C11_ScansAll ==
    (alive /\ paging # None /\ PageResolves) =>
        LET shown == display_table(column_count(ShownTable), ShownTable,
                                   ShownRange)
        IN  /\ unwrap(page).store = RowsIn(ShownTable, ShownRange)
            /\ shown.store = unwrap(page).store
            /\ shown.count = Len(ShownTable.rows)

\* C11 witness: the second page of a table whose rows go on past the end of
\* the range, displayed over the rows of the third page
C11_Witness ==
    /\ alive /\ paging # None /\ PageResolves
    /\ last.op = "prev_page" /\ last.result = "Ok"
    /\ unwrap(paging).current = 1
    /\ Len(ShownTable.rows) > ShownRange.end
    /\ Len(unwrap(page).store) = PageSize

\* the paging state is in range
PagingInRange(p) ==
    /\ p.num_pages >= 1
    /\ 0 <= p.current
    /\ p.current < p.num_pages

\* C12. Paging state stays in range: every paging state reached has
\* num_pages >= 1 and 0 <= current < num_pages; a page change moves current
\* by exactly one and keeps num_pages; whenever a handler can run on a page
\* and a paging state, its current - 1 (previous) or current + 1 (next) is
\* inside [0, num_pages); and a page change only panics when the table of
\* the page does not resolve, which is before it computes current.
C12_PagingInRange ==
    [][ /\ paging' # None =>
            /\ PagingInRange(unwrap(paging'))
            /\ (page' # None /\ button_previous_sensitive') =>
                   unwrap(paging').current - 1 >= 0
            /\ (page' # None /\ button_next_sensitive') =>
                   unwrap(paging').current + 1 < unwrap(paging').num_pages
        /\ (last'.op = "next_page" /\ last'.result = "Ok") =>
            /\ paging # None /\ paging' # None
            /\ unwrap(paging').current = unwrap(paging).current + 1
            /\ unwrap(paging').num_pages = unwrap(paging).num_pages
        /\ (last'.op = "prev_page" /\ last'.result = "Ok") =>
            /\ paging # None /\ paging' # None
            /\ unwrap(paging').current = unwrap(paging).current - 1
            /\ unwrap(paging').num_pages = unwrap(paging).num_pages
        /\ last'.op \in {"next_page", "prev_page"} => last'.result # "Panic"
           \/ ~PageResolves
      ]_vars

\* C12 witness: prev_page has moved back to the first page of three
C12_Witness ==
    /\ alive /\ paging # None /\ page # None
    /\ last.op = "prev_page" /\ last.result = "Ok"
    /\ unwrap(paging).current = 0
    /\ unwrap(paging).num_pages = 3
    /\ ~button_previous_sensitive /\ button_next_sensitive

\* C13. Placeholders of the derived INSERT: for every table an export
\* derives its statements for, the INSERT statement has exactly one
\* positional placeholder per column, ?1 .. ?n in order, next to the n
\* column names in column order, for every n >= 0.
C13_Placeholders ==
    [][ (last'.op = "export" /\ alive /\ database_memmap # None) =>
          \A k \in 1..Len(sql_log') :
             sql_log'[k].op = "CREATE" =>
                LET table  == unwrap(by_name(Database(unwrap(database_memmap)),
                                             sql_log'[k].table))
                    n      == column_count(table)
                    insert == insert_query(table)
                IN  /\ Len(insert.placeholders) = n
                    /\ insert.placeholders = [i \in 1..n |-> i]
                    /\ Len(insert.cols) = n
                    /\ \A c \in 1..n :
                          insert.cols[c].name = table.columns[c].name
      ]_vars

\* the declared kinds of the format
KnownKinds == {"Nothing", "Integer", "Float", "Text", "Boolean", "BigInt",
               "VarChar"}

\* a column of the table has a declared kind outside the known set
HasUnknownKind(table) ==
    \E c \in 1..Len(table.columns) :
        table.columns[c].value_type \notin KnownKinds

\* C14. Unrecognized column kind is fatal, never dropped: select_table on a
\* table with a column of an unrecognized kind ends in a panic and displays
\* no page; an export of a database with such a table does not succeed, has
\* no COMMIT, leaves the target store as it was (the rows of earlier tables
\* are not committed) and creates no table for it with the column skipped or
\* given a type.
C14_UnknownKindFatal ==
    [][ (alive /\ database_memmap # None) =>
          LET tables == Database(unwrap(database_memmap))
          IN  /\ (/\ last'.op = "select_table"
                  /\ by_name(tables, last'.arg) # None
                  /\ HasUnknownKind(unwrap(by_name(tables, last'.arg)))) =>
                    /\ last'.result = "Panic"
                    /\ ~alive'
                    /\ page' = None /\ paging' = None
              /\ (/\ last'.op = "export"
                  /\ \E t \in 1..Len(tables) : HasUnknownKind(tables[t])) =>
                    /\ last'.result \in {"Panic", "Err"}
                    /\ ~alive'
                    /\ \A k \in 1..Len(sql_log') : sql_log'[k].op # "COMMIT"
                    /\ store' = store
                    /\ \A k \in 1..Len(sql_log') :
                          sql_log'[k].op \in TableOps =>
                             ~HasUnknownKind(unwrap(by_name(tables,
                                                            sql_log'[k].table)))
      ]_vars

\* C14 witness: an export that panics on the table with the unrecognized
\* kind after the rows of the table before it were inserted
C14_Witness ==
    /\ ~alive
    /\ last.op = "export" /\ last.result = "Panic"
    /\ Len(sql_log) > 0
    /\ sql_log[Len(sql_log)].op = "INSERT"
    /\ sql_log[Len(sql_log)].table = "Good"
    /\ sql_log[Len(sql_log)].ok
    /\ \A p \in ExportPaths : store[p] = EmptyStore

====
